---- MODULE Spec2Model ----
(***************************************************************************)
(* DayPharm (src/app.py): a Streamlit script with two roles sharing one    *)
(* session state.  The module models                                       *)
(*   - generate_schedule_from_meds, the 7-day schedule rule engine,        *)
(*   - the session state (shared_patients, patient_medications,            *)
(*     chat_history, role) and the render passes that read and write it.   *)
(*                                                                         *)
(* Python values.  A str is a sequence of characters wrapped by S(..);     *)
(* Korean characters are written romanised, one token per character        *)
(* ("a","chim" for the two characters of the morning keyword).  None is    *)
(* the value None.  A dict is a TLA+ function whose DOMAIN is the set of   *)
(* keys it holds, so a missing key and a key holding None differ as they   *)
(* do in Python.                                                           *)
(***************************************************************************)
EXTENDS Integers, Sequences, FiniteSets, TLC

VARIABLES
    role,                \* st.session_state.role
    shared_patients,     \* st.session_state.shared_patients
    patient_medications, \* st.session_state.patient_medications
    chat_history,        \* st.session_state.chat_history
    pass,                \* what the last render pass did and displayed
    meds_in,             \* argument of a generate_schedule_from_meds call
    start,               \* calendar day on which that call begins
    result,              \* what the call returned (or raised)
    result2,             \* what a second call with the same argument returned
    med_in,              \* one medication record, for the time derivation
    times_out            \* the times derived from med_in

vars == <<role, shared_patients, patient_medications, chat_history, pass,
          meds_in, start, result, result2, med_in, times_out>>

-----------------------------------------------------------------------------
(* Bounds of the model *)

MaxMeds == 2
MaxPatients == 2
MaxChat == 2

-----------------------------------------------------------------------------
(* Python values *)

None == [t |-> "None"]
S(s) == [t |-> "str", s |-> s]
IsStr(v) == v.t = "str"

\* dict.get(key, default): the default only when the key is missing
Get(d, k, default) == IF k \in DOMAIN d THEN d[k] ELSE default

\* truth value of a str or None (x or "")
Truthy(v) == IsStr(v) /\ v.s # <<>>

\* str.lower(), character by character; only Latin letters have a lower case
LowerChar(c) == IF c = "PRN" THEN "prn" ELSE c
Lower(s) == [i \in 1..Len(s) |-> LowerChar(s[i])]

\* the `in` operator on two strs: kw occurs in s as a substring
Contains(s, kw) ==
    \E i \in 0..(Len(s) - Len(kw)) : SubSeq(s, i + 1, i + Len(kw)) = kw

-----------------------------------------------------------------------------
(* String literals of generate_schedule_from_meds *)

KwMorning == <<"a", "chim">>
KwLunch == <<"jeom", "sim">>
KwEvening == <<"jeo", "nyeok">>
KwBedtime == <<"chwi", "chim">>
KwBeforeSleep == <<"ja", "gi", " ", "jeon">>
Kw3Times == <<"3", "hoe">>
Kw2Times == <<"2", "hoe">>
DefaultFrequency == S(<<"1", "il", " ", "1", "hoe">>)
NoNamePlaceholder == S(<<"no-name">>)
T0800 == "08:00"
T1200 == "12:00"
T1800 == "18:00"
T2200 == "22:00"

-----------------------------------------------------------------------------
(* Calendar: datetime + timedelta(days) and strftime("%Y-%m-%d").  A date  *)
(* is a day number counted from 2024-01-01 (day 0); its formatted key is   *)
(* the triple <<year, month, day>>.                                        *)

IsLeap(y) == (y % 4 = 0 /\ y % 100 # 0) \/ y % 400 = 0
DaysInMonth(y, m) ==
    IF m = 2 THEN (IF IsLeap(y) THEN 29 ELSE 28)
    ELSE IF m \in {4, 6, 9, 11} THEN 30 ELSE 31

RECURSIVE YMD(_, _, _)
YMD(n, y, m) ==
    IF n < DaysInMonth(y, m) THEN <<y, m, n + 1>>
    ELSE IF m = 12 THEN YMD(n - DaysInMonth(y, m), y + 1, 1)
    ELSE YMD(n - DaysInMonth(y, m), y, m + 1)

DateStr(n) == YMD(n, 2024, 1)

\* datetime.now(): the r-th clock read of a call that begins on day `begin`,
\* where midnight passes after `cross` reads
Now(begin, cross, r) == IF r <= cross THEN begin ELSE begin + 1

-----------------------------------------------------------------------------
(* generate_schedule_from_meds *)

DaysAhead == 7

\* lines 155-174: the clock times of one medication, in the order appended
DeriveTimes(med) ==
    LET tv == Get(med, "timing", None)
        timing == Lower(IF Truthy(tv) THEN tv.s ELSE <<>>)
        frequency == Get(med, "frequency", DefaultFrequency)
        t1 == IF Contains(timing, KwMorning) THEN <<T0800>> ELSE <<>>
        t2 == IF Contains(timing, KwLunch) THEN Append(t1, T1200) ELSE t1
        t3 == IF Contains(timing, KwEvening) THEN Append(t2, T1800) ELSE t2
        t4 == IF Contains(timing, KwBedtime) \/ Contains(timing, KwBeforeSleep)
              THEN Append(t3, T2200) ELSE t3
    IN  IF t4 # <<>> THEN [status |-> "ok", times |-> t4]
        ELSE IF ~IsStr(frequency) THEN [status |-> "TypeError"]
        ELSE IF Contains(frequency.s, Kw3Times)
             THEN [status |-> "ok", times |-> <<T0800, T1200, T1800>>]
        ELSE IF Contains(frequency.s, Kw2Times)
             THEN [status |-> "ok", times |-> <<T0800, T1800>>]
        ELSE [status |-> "ok", times |-> <<T0800>>]

\* lines 181-187: the entries one medication adds to one date
Entries(med, times) ==
    [j \in 1..Len(times) |->
        [medication |-> Get(med, "name", NoNamePlaceholder),
         time |-> times[j],
         dosage |-> Get(med, "dosage", S(<<>>)),
         taken |-> FALSE]]

\* lines 179-187: schedule[date_str] extended (created when missing)
AddEntries(schedule, key, entries) ==
    [k \in DOMAIN schedule \cup {key} |->
        (IF k \in DOMAIN schedule THEN schedule[k] ELSE <<>>)
        \o (IF k = key THEN entries ELSE <<>>)]

\* lines 176-187: the day loop of the i-th medication, from day `day` on
RECURSIVE DayLoop(_, _, _, _, _, _, _)
DayLoop(schedule, med, times, i, day, begin, cross) ==
    IF day >= DaysAhead THEN schedule
    ELSE LET date == Now(begin, cross, DaysAhead * (i - 1) + day + 1) + day
         IN  DayLoop(AddEntries(schedule, DateStr(date), Entries(med, times)),
                     med, times, i, day + 1, begin, cross)

\* lines 154-188: the loop over meds, from the i-th on
RECURSIVE MedLoop(_, _, _, _, _)
MedLoop(schedule, meds, i, begin, cross) ==
    IF i > Len(meds) THEN [status |-> "ok", schedule |-> schedule]
    ELSE LET d == DeriveTimes(meds[i])
         IN  IF d.status # "ok" THEN [status |-> d.status]
             ELSE MedLoop(DayLoop(schedule, meds[i], d.times, i, 0, begin, cross),
                          meds, i + 1, begin, cross)

generate_schedule_from_meds(meds, begin, cross) ==
    MedLoop(<<>>, meds, 1, begin, cross)

-----------------------------------------------------------------------------
(* Session state: helpers on dicts and patient records.  A patient record  *)
(* carries the field rid, the identity of the Python object (the order in  *)
(* which the dicts were created); it is not a key of the dict.             *)

\* dict.update(u), and {**d, key: value}
DictUpdate(d, u) ==
    [k \in DOMAIN d \cup DOMAIN u |-> IF k \in DOMAIN u THEN u[k] ELSE d[k]]

\* selected_patient = None (line 203)
NoPatient == [rid |-> 0]

\* isinstance(m, str)
IsStrVal(m) == "t" \in DOMAIN m /\ m.t = "str"

\* line 312 (and 225, 288): the display name of a medication entry
MedName(m) == IF IsStrVal(m) THEN m ELSE Get(m, "name", S(<<>>))

\* line 302: p["name"] or "(no name)"
DisplayName(p) == IF Truthy(p.name) THEN p.name ELSE S(<<"(no-name)">>)

\* line 302: the options of the patient-side selectbox, one per record
PatientOptions(patients) == [i \in 1..Len(patients) |-> DisplayName(patients[i])]

\* a lookup that returns the last record with the name instead of the first
FindLastByDisplayName(patients, selected_name) ==
    CHOOSE i \in 1..Len(patients) :
        /\ DisplayName(patients[i]) = selected_name
        /\ \A j \in (i + 1)..Len(patients) :
              DisplayName(patients[j]) # selected_name

\* line 304: next(p for p in shared_patients if display name == selected_name),
\* as the index of the record found
FindByDisplayName(patients, selected_name) ==
    CHOOSE i \in 1..Len(patients) :
        /\ DisplayName(patients[i]) = selected_name
        /\ \A j \in 1..(i - 1) : DisplayName(patients[j]) # selected_name

\* a sync that keeps the dosage, frequency and timing a structured entry has
SyncKeepsExtractedFields(selected_patient) ==
    LET meds == Get(selected_patient, "medications", <<>>)
    IN  [i \in 1..Len(meds) |->
            [name |-> MedName(meds[i]),
             dosage |-> IF IsStrVal(meds[i]) THEN S(<<>>)
                        ELSE Get(meds[i], "dosage", S(<<>>)),
             frequency |-> IF IsStrVal(meds[i]) THEN DefaultFrequency
                           ELSE Get(meds[i], "frequency", DefaultFrequency),
             timing |-> IF IsStrVal(meds[i]) THEN S(KwMorning)
                        ELSE Get(meds[i], "timing", S(KwMorning)),
             duration |-> S(<<>>)]]

\* lines 310-318: the list patient_medications is replaced by
SyncMedications(selected_patient) ==
    LET meds == Get(selected_patient, "medications", <<>>)
    IN  [i \in 1..Len(meds) |->
            [name |-> MedName(meds[i]),
             dosage |-> S(<<>>),
             frequency |-> DefaultFrequency,
             timing |-> S(KwMorning),
             duration |-> S(<<>>)]]

\* a default selection that takes the first record (index = 0)
FindOldest(patients) ==
    IF patients = <<>> THEN NoPatient ELSE patients[1]

\* lines 199-220: the record the pharmacist selectbox selects by default
\* (index = len(patients) - 1), None on an empty store
FindMostRecent(patients) ==
    IF patients = <<>> THEN NoPatient ELSE patients[Len(patients)]

\* str.strip(): leading and trailing blanks removed
RECURSIVE LStrip(_)
LStrip(s) == IF s # <<>> /\ Head(s) = " " THEN LStrip(Tail(s)) ELSE s
RECURSIVE RStrip(_)
RStrip(s) ==
    IF s # <<>> /\ s[Len(s)] = " " THEN RStrip(SubSeq(s, 1, Len(s) - 1)) ELSE s
Strip(s) == RStrip(LStrip(s))

\* str.split(","): the pieces between commas, `cur` being the piece begun
RECURSIVE SplitComma(_, _)
SplitComma(s, cur) ==
    IF s = <<>> THEN <<cur>>
    ELSE IF Head(s) = "," THEN <<cur>> \o SplitComma(Tail(s), <<>>)
    ELSE SplitComma(Tail(s), Append(cur, Head(s)))

\* lines 250-254: meds_list, the stripped non-empty pieces of meds_text
RECURSIVE KeepNonEmpty(_)
KeepNonEmpty(pieces) ==
    IF pieces = <<>> THEN <<>>
    ELSE LET m == Strip(Head(pieces))
         IN  (IF m # <<>> THEN <<S(m)>> ELSE <<>>) \o KeepNonEmpty(Tail(pieces))
MedsList(meds_text) == KeepNonEmpty(SplitComma(meds_text, <<>>))

\* lines 256-263
PatientData(form) ==
    [name |-> form.name, age |-> form.age, gender |-> form.gender,
     conditions |-> form.conditions,
     medications |-> MedsList(form.meds_text), memo |-> form.memo]

\* an upsert that appends whether or not a record is selected
UpsertAlwaysAppends(patients, selected_idx, patient_data, report_text) ==
    Append(patients,
           DictUpdate(patient_data,
                      [report |-> report_text, rid |-> Len(patients) + 1]))

\* lines 271-279: selected_idx = 0 stands for selected_patient = None
Upsert(patients, selected_idx, patient_data, report_text) ==
    IF selected_idx # 0
    THEN [patients EXCEPT ![selected_idx] =
             DictUpdate(@, DictUpdate(patient_data, [report |-> report_text]))]
    ELSE Append(patients,
                DictUpdate(patient_data,
                           [report |-> report_text, rid |-> Len(patients) + 1]))

\* lines 340-353: what a successful extraction registers.  The id is the
\* time of creation as text; nothing in the script reads it back, and two
\* records may hold the same one.
ExtractedMeds(data) == Get(data, "medications", <<>>)
AutoRecord(data, rid) ==
    [id |-> S(<<"timestamp">>),
     name |-> Get(data, "name", S(<<>>)),
     age |-> Get(data, "age", S(<<>>)),
     gender |-> S(<<>>),
     conditions |-> S(<<>>),
     medications |-> ExtractedMeds(data),
     report |-> None,
     rid |-> rid]

-----------------------------------------------------------------------------
(* Inputs of the render passes: what the user types and what the AI        *)
(* collaborator (Gemini) answers.                                          *)

Str(c) == S(<<c>>)

\* line 35: the key is set at start and never changed, so make_gemini always
\* returns a model and the branches for a missing key (lines 58-59, 71-72,
\* 114-115, 331-332, 428-429) are never taken
ApiKey == Str("GEMINI_API_KEY")
HasApiKey == Truthy(ApiKey)

\* the pharmacist form (lines 241-247)
FormInputs ==
    { [name |-> Str("Kim"), age |-> Str("70"), gender |-> Str("F"),
       conditions |-> Str("HTN"),
       meds_text |-> <<"Amox", ",", " ", "Zolp">>, memo |-> Str("memo")],
      [name |-> S(<<>>), age |-> S(<<>>), gender |-> S(<<>>),
       conditions |-> S(<<>>),
       meds_text |-> <<" ", ",", "Amox", " ", ",">>, memo |-> S(<<>>)] }

\* res.text of generate_pharmacist_report (line 146)
ReportTexts == {Str("report")}

\* json.loads(text) of analyze_prescription_image (line 103), when it succeeds
ExtractedData ==
    { [name |-> Str("Kim"),
       medications |-> << [name |-> Str("Amox"), dosage |-> Str("500mg"),
                           frequency |-> S(<<"1", "il", " ", "3", "hoe">>),
                           timing |-> S(<<>>), duration |-> Str("7d")] >>],
      [name |-> S(<<>>), age |-> S(<<>>),
       medications |-> << [name |-> Str("Zolp"),
                           timing |-> S(<<"chwi", "chim", " ", "jeon">>)],
                          [dosage |-> Str("5mg"),
                           timing |-> S(<<"a", "chim", " ", "jeo", "nyeok">>)] >>],
      [name |-> Str("Lee"), age |-> Str("70"),
       medications |-> << [name |-> Str("Tyl"), dosage |-> S(<<>>),
                           frequency |-> None, timing |-> None] >>],
      [age |-> Str("?")] }

\* what analyze_prescription_image does: the collaborator raises (line 95),
\* json.loads fails (line 105), or data is returned (line 104)
ExtractionOutcomes ==
    {[kind |-> "raise"], [kind |-> "parse_error"]}
    \cup {[kind |-> "ok", data |-> d] : d \in ExtractedData}

\* what model.generate_content does for a report, an interaction check or a chat
ReportOutcomes ==
    {[kind |-> "raise"]} \cup {[kind |-> "ok", text |-> t] : t \in ReportTexts}
ReplyOutcomes == {[kind |-> "raise"], [kind |-> "ok", text |-> Str("reply")]}
Questions == {Str("question")}

-----------------------------------------------------------------------------
(* The patient-mode script, lines 296-447, as one render pass *)

\* a handler that registers a record although the extraction failed to parse
IntakeHandlerRegistersAnyway(pm, sp, outcome) ==
    LET data == IF outcome.kind = "parse_error" THEN <<>> ELSE outcome.data
    IN  [pm |-> pm \o Get(data, "medications", <<>>),
         sp |-> Append(sp, [id |-> S(<<"timestamp">>), name |-> S(<<>>),
                            age |-> S(<<>>), gender |-> S(<<>>),
                            conditions |-> S(<<>>),
                            medications |-> Get(data, "medications", <<>>),
                            report |-> None, rid |-> Len(sp) + 1]),
         error_shown |-> outcome.kind = "parse_error"]

\* lines 336-353: the intake button handler after analyze_prescription_image
\* returned (data, err)
IntakeHandler(pm, sp, outcome) ==
    IF outcome.kind = "parse_error"
    THEN [pm |-> pm, sp |-> sp, error_shown |-> TRUE]
    ELSE [pm |-> pm \o ExtractedMeds(outcome.data),
          sp |-> Append(sp, AutoRecord(outcome.data, Len(sp) + 1)),
          error_shown |-> FALSE]

\* line 384: generate_schedule_from_meds raises, which it does exactly when the
\* time derivation of one of the medications raises (MedLoop)
Tab2Raises(pm) == \E i \in 1..Len(pm) : DeriveTimes(pm[i]).status # "ok"

\* line 404: m["name"] raises KeyError
Tab3Raises(pm) == \E i \in 1..Len(pm) : "name" \notin DOMAIN pm[i]

Aborted(p) == [p EXCEPT !.status = "aborted"]

\* ev: [kind |-> "render"], [kind |-> "intake", outcome |-> ..],
\*     [kind |-> "interaction", outcome |-> ..],
\*     [kind |-> "chat", q |-> .., outcome |-> ..];
\* pos: the option chosen in the selectbox of line 303 (0 without a selectbox)
PatientScript(pos, ev) ==
    LET sp0 == shared_patients
        have == sp0 # <<>>
        sel == IF have
               THEN FindByDisplayName(sp0, PatientOptions(sp0)[pos]) ELSE 0
        pm0 == IF have THEN SyncMedications(sp0[sel]) ELSE patient_medications
        p0 == [mode |-> "patient", event |-> ev.kind, status |-> "completed",
               selected |-> sel, sel_pos |-> pos, n_options |-> Len(sp0),
               default_rid |-> 0,
               report_shown |-> IF have
                                THEN Get(sp0[sel], "report", Str("(no-report)"))
                                ELSE None,
               error_shown |-> FALSE, ai_calls |-> 0, ai_error |-> FALSE]
        ai == ev.kind # "render" /\ ev.outcome.kind = "raise"
        pAI == [p0 EXCEPT !.ai_calls = 1, !.ai_error = ai]
        h == IF ev.kind = "intake" /\ ~ai
             THEN IntakeHandler(pm0, sp0, ev.outcome)
             ELSE [pm |-> pm0, sp |-> sp0, error_shown |-> FALSE]
        ch1 == IF ev.kind = "chat"
               THEN Append(chat_history, [role |-> "user", content |-> ev.q])
               ELSE chat_history
    IN  IF ev.kind = "intake" /\ ai
        THEN [pm |-> pm0, sp |-> sp0, ch |-> chat_history,
              pass |-> Aborted([pAI EXCEPT !.event = "intake_raise"])]
        ELSE IF Tab2Raises(h.pm) \/ Tab3Raises(h.pm)
        THEN [pm |-> h.pm, sp |-> h.sp, ch |-> chat_history,
              pass |-> Aborted([p0 EXCEPT
                          !.event = IF ev.kind = "intake" THEN "intake_ok"
                                    ELSE ev.kind,
                          !.ai_calls = IF ev.kind = "intake" THEN 1 ELSE 0])]
        ELSE IF ev.kind = "intake"
        THEN [pm |-> h.pm, sp |-> h.sp, ch |-> chat_history,
              pass |-> [pAI EXCEPT
                          !.event = IF h.error_shown THEN "intake_parse_error"
                                    ELSE "intake_ok",
                          !.error_shown = h.error_shown]]
        ELSE IF ev.kind = "interaction"
        THEN [pm |-> h.pm, sp |-> h.sp, ch |-> chat_history,
              pass |-> IF ai THEN Aborted(pAI) ELSE pAI]
        ELSE IF ev.kind = "chat"
        THEN [pm |-> h.pm, sp |-> h.sp,
              ch |-> IF ai THEN ch1
                     ELSE Append(ch1, [role |-> "assistant",
                                       content |-> ev.outcome.text]),
              pass |-> IF ai THEN Aborted(pAI) ELSE pAI]
        ELSE [pm |-> h.pm, sp |-> h.sp, ch |-> chat_history, pass |-> p0]

-----------------------------------------------------------------------------
(* The pharmacist-mode script, lines 194-290, as one render pass *)

\* ev: [kind |-> "render"] or [kind |-> "report", form |-> .., outcome |-> ..];
\* idx: the index chosen in the selectbox of line 213 (0 without a selectbox)
PharmacistScript(idx, ev) ==
    LET sp0 == shared_patients
        p0 == [mode |-> "pharmacist", event |-> ev.kind, status |-> "completed",
               selected |-> idx, sel_pos |-> idx, n_options |-> Len(sp0),
               default_rid |-> FindMostRecent(sp0).rid,
               report_shown |-> None,
               error_shown |-> FALSE, ai_calls |-> 0, ai_error |-> FALSE]
    IN  IF ev.kind = "render"
        THEN [pm |-> patient_medications, sp |-> sp0, ch |-> chat_history,
              pass |-> p0]
        ELSE IF ev.outcome.kind = "raise"
        THEN [pm |-> patient_medications, sp |-> sp0, ch |-> chat_history,
              pass |-> Aborted([p0 EXCEPT !.ai_calls = 1, !.ai_error = TRUE])]
        ELSE [pm |-> patient_medications,
              sp |-> Upsert(sp0, idx, PatientData(ev.form), ev.outcome.text),
              ch |-> chat_history,
              pass |-> [p0 EXCEPT !.ai_calls = 1,
                                  !.report_shown = ev.outcome.text]]

-----------------------------------------------------------------------------
(* The session: one action per user interaction, each a whole script run *)

NotCalled == [status |-> "not-called"]
schedVars == <<meds_in, start, result, result2, med_in, times_out>>
sessionVars == <<role, shared_patients, patient_medications, chat_history, pass>>

\* lines 20-35, followed by the first run of the script (patient mode)
Init ==
    /\ role = "patient"
    /\ shared_patients = <<>>
    /\ patient_medications = <<>>
    /\ chat_history = <<>>
    /\ pass = [mode |-> "patient", event |-> "render", status |-> "completed",
               selected |-> 0, sel_pos |-> 0, n_options |-> 0,
               default_rid |-> 0, report_shown |-> None,
               error_shown |-> FALSE, ai_calls |-> 0, ai_error |-> FALSE]
    /\ meds_in = <<>>
    /\ start = 0
    /\ result = NotCalled
    /\ result2 = NotCalled
    /\ med_in = <<>>
    /\ times_out = NotCalled

Run(r) ==
    /\ patient_medications' = r.pm
    /\ shared_patients' = r.sp
    /\ chat_history' = r.ch
    /\ pass' = r.pass
    /\ UNCHANGED schedVars

\* the selectbox choices open to the user in either mode
Choices == IF shared_patients = <<>> THEN {0} ELSE 1..Len(shared_patients)

\* lines 41-46: the sidebar radio; the selectboxes show their defaults
\* (line 303: the first option; line 216: the last index)
SwitchRole ==
    IF role = "patient"
    THEN /\ role' = "pharmacist"
         /\ Run(PharmacistScript(Len(shared_patients), [kind |-> "render"]))
    ELSE /\ role' = "patient"
         /\ Run(PatientScript(IF shared_patients = <<>> THEN 0 ELSE 1,
                              [kind |-> "render"]))

\* line 303: the patient picks an option (or any other rerun without a button)
PatientSelect(pos) ==
    /\ role = "patient"
    /\ Run(PatientScript(pos, [kind |-> "render"]))
    /\ UNCHANGED role

\* line 330: the intake button
PatientIntake(pos, outcome) ==
    /\ role = "patient"
    /\ HasApiKey
    /\ outcome.kind = "ok" => Len(shared_patients) < MaxPatients
    /\ Run(PatientScript(pos, [kind |-> "intake", outcome |-> outcome]))
    /\ UNCHANGED role

\* line 406: the interaction-check button, shown when there are medications
PatientInteraction(pos, outcome) ==
    /\ role = "patient"
    /\ HasApiKey
    /\ PatientScript(pos, [kind |-> "render"]).pm # <<>>
    /\ Run(PatientScript(pos, [kind |-> "interaction", outcome |-> outcome]))
    /\ UNCHANGED role

\* line 422: a chat question
PatientChat(pos, q, outcome) ==
    /\ role = "patient"
    /\ HasApiKey
    /\ Len(chat_history) + 2 <= MaxChat
    /\ Run(PatientScript(pos, [kind |-> "chat", q |-> q, outcome |-> outcome]))
    /\ UNCHANGED role

\* line 213: the pharmacist picks a patient
PharmacistSelect(idx) ==
    /\ role = "pharmacist"
    /\ Run(PharmacistScript(idx, [kind |-> "render"]))
    /\ UNCHANGED role

\* line 249: the report button
PharmacistReport(idx, form, outcome) ==
    /\ role = "pharmacist"
    /\ HasApiKey
    /\ idx = 0 => Len(shared_patients) < MaxPatients
    /\ Run(PharmacistScript(idx, [kind |-> "report", form |-> form,
                                  outcome |-> outcome]))
    /\ UNCHANGED role

Next ==
    \/ SwitchRole
    \/ \E pos \in Choices : PatientSelect(pos)
    \/ \E pos \in Choices, o \in ExtractionOutcomes : PatientIntake(pos, o)
    \/ \E pos \in Choices, o \in ReplyOutcomes : PatientInteraction(pos, o)
    \/ \E pos \in Choices, q \in Questions, o \in ReplyOutcomes :
          PatientChat(pos, q, o)
    \/ \E idx \in Choices : PharmacistSelect(idx)
    \/ \E idx \in Choices, f \in FormInputs, o \in ReportOutcomes :
          PharmacistReport(idx, f, o)

Spec == Init /\ [][Next]_vars

-----------------------------------------------------------------------------
(* generate_schedule_from_meds on its own: the inputs are drawn in the     *)
(* initial state, the actions call the function.                           *)

Absent == [t |-> "absent"]

\* a dict with the keys whose value is not Absent
MkDict(full) == [k \in {x \in DOMAIN full : full[x] # Absent} |-> full[k]]

Timings ==
    { Absent, None, S(<<>>),
      S(<<"a", "chim">>),
      S(<<"a", "chim", " ", "sik", "hu">>),
      S(<<"jeom", "sim">>),
      S(<<"jeo", "nyeok", " ", "sik", "hu">>),
      S(<<"chwi", "chim", " ", "jeon">>),
      S(<<"ja", "gi", " ", "jeon">>),
      S(<<"chwi", "chim", ",", "ja", "gi", " ", "jeon">>),
      S(<<"a", "chim", ",", "jeo", "nyeok">>),
      S(<<"a", "chim", "jeom", "sim", "jeo", "nyeok">>),
      S(<<"jeo", "nyeok", ",", "chwi", "chim", ",", "a", "chim">>),
      S(<<"sik", "hu">>),
      S(<<"a", " ", "chim">>),
      S(<<"chim", "a">>),
      S(<<"ja", "gi", "jeon">>),
      S(<<"PRN">>) }

Frequencies ==
    { Absent, None, S(<<>>),
      S(<<"1", "il", " ", "1", "hoe">>),
      S(<<"1", "il", " ", "2", "hoe">>),
      S(<<"1", "il", " ", "3", "hoe">>),
      S(<<"2", "~", "3", "hoe">>),
      S(<<"2", "hoe", ",", "3", "hoe">>),
      S(<<"3", " ", "hoe">>),
      S(<<"PRN">>) }

MedRecords ==
    { MkDict([name |-> Str("Amox"), dosage |-> Absent, frequency |-> f,
              timing |-> t]) : f \in Frequencies, t \in Timings }

InitTimes ==
    /\ role = "patient"
    /\ shared_patients = <<>>
    /\ patient_medications = <<>>
    /\ chat_history = <<>>
    /\ pass = [mode |-> "none"]
    /\ meds_in = <<>>
    /\ start = 0
    /\ result = NotCalled
    /\ result2 = NotCalled
    /\ med_in \in MedRecords
    /\ times_out = NotCalled

\* lines 155-174 for the one record med_in
Derive ==
    /\ times_out = NotCalled
    /\ times_out' = DeriveTimes(med_in)
    /\ UNCHANGED <<sessionVars, meds_in, start, result, result2, med_in>>

SpecTimes == InitTimes /\ [][Derive]_vars

\* the medication lists handed to the function
SchedMeds ==
    { [name |-> Str("Amoxicillin"), dosage |-> Str("500mg"),
       frequency |-> S(<<"1", "il", " ", "3", "hoe">>), timing |-> S(<<>>)],
      [name |-> Str("Zolpidem"), timing |-> S(<<"chwi", "chim", " ", "jeon">>)],
      [dosage |-> None, timing |-> S(<<"a", "chim", ",", "jeo", "nyeok">>),
       frequency |-> None],
      [name |-> Str("Tylenol"), frequency |-> None, timing |-> None,
       duration |-> None] }

RECURSIVE SeqsUpTo(_, _)
SeqsUpTo(set, n) ==
    IF n = 0 THEN {<<>>}
    ELSE LET shorter == SeqsUpTo(set, n - 1)
         IN  shorter \cup {Append(q, x) : q \in shorter, x \in set}

\* 2024-01-01, 2024-02-25 (a leap February ahead), 2024-12-28 (a new year ahead)
StartDays == {0, 55, 362}

InitSched ==
    /\ role = "patient"
    /\ shared_patients = <<>>
    /\ patient_medications = <<>>
    /\ chat_history = <<>>
    /\ pass = [mode |-> "none"]
    /\ meds_in \in SeqsUpTo(SchedMeds, MaxMeds)
    /\ start \in StartDays
    /\ result = NotCalled
    /\ result2 = NotCalled
    /\ med_in = <<>>
    /\ times_out = NotCalled

\* the number of clock reads after which midnight may pass during a call of
\* the function on meds; the last value stands for "not during the call"
CrossChoices(meds) == 1..(DaysAhead * Len(meds) + 1)

\* a call that begins on day `start`
Call(cross) ==
    /\ result = NotCalled
    /\ result' = generate_schedule_from_meds(meds_in, start, cross)
    /\ UNCHANGED <<sessionVars, meds_in, start, result2, med_in, times_out>>

\* a second call with the same list, beginning on the same day
CallAgain(cross) ==
    /\ result # NotCalled
    /\ result2 = NotCalled
    /\ result2' = generate_schedule_from_meds(meds_in, start, cross)
    /\ UNCHANGED <<sessionVars, meds_in, start, result, med_in, times_out>>

NextSched ==
    \/ \E cross \in CrossChoices(meds_in) : Call(cross)
    \/ \E cross \in CrossChoices(meds_in) : CallAgain(cross)

SpecSched == InitSched /\ [][NextSched]_vars

-----------------------------------------------------------------------------
(* Claims about generate_schedule_from_meds (SpecSched, SpecTimes) *)

\* the dates a call beginning on day `begin` is meant to cover
SevenDays(begin) == {DateStr(begin + d) : d \in 0..(DaysAhead - 1)}

\* C3: for every medication list, the empty one included, the schedule
\* returned has exactly 7 distinct date keys, the 7 consecutive calendar days
\* starting at the day the call begins.
C3_SevenConsecutiveDateKeys ==
    result.status = "ok" =>
        /\ DOMAIN result.schedule = SevenDays(start)
        /\ Cardinality(DOMAIN result.schedule) = DaysAhead

\* the keyword table and the frequency fallback, as the reference rule states
\* them: a set of times for a record
TimingText(med) ==
    LET tv == Get(med, "timing", None) IN IF IsStr(tv) THEN tv.s ELSE <<>>
KeywordTimes(med) ==
    LET t == TimingText(med)
    IN  {x \in {T0800, T1200, T1800, T2200} :
            \/ x = T0800 /\ Contains(t, KwMorning)
            \/ x = T1200 /\ Contains(t, KwLunch)
            \/ x = T1800 /\ Contains(t, KwEvening)
            \/ x = T2200 /\ (Contains(t, KwBedtime) \/ Contains(t, KwBeforeSleep))}
FrequencyHas(med, kw) ==
    LET f == Get(med, "frequency", None) IN IsStr(f) /\ Contains(f.s, kw)
ReferenceTimes(med) ==
    IF KeywordTimes(med) # {} THEN KeywordTimes(med)
    ELSE IF FrequencyHas(med, Kw3Times) THEN {T0800, T1200, T1800}
    ELSE IF FrequencyHas(med, Kw2Times) THEN {T0800, T1800}
    ELSE {T0800}

Range(q) == {q[i] : i \in 1..Len(q)}

\* C4: for every medication record the derived set of clock times is the one
\* the reference rule gives, and it is never empty.
C4_TimesMatchReference ==
    times_out # NotCalled =>
        /\ times_out.status = "ok"
        /\ Range(times_out.times) = ReferenceTimes(med_in)
        /\ times_out.times # <<>>

\* What does hold of the time derivation: it matches the reference rule on
\* every record except those it raises on, and it raises exactly on the
\* records with frequency None and no daypart keyword in timing.
TimesMatchReferenceUnlessRaised ==
    times_out # NotCalled =>
        IF "frequency" \in DOMAIN med_in /\ med_in.frequency = None
           /\ KeywordTimes(med_in) = {}
        THEN times_out.status = "TypeError"
        ELSE /\ times_out.status = "ok"
             /\ Range(times_out.times) = ReferenceTimes(med_in)
             /\ Len(times_out.times) = Cardinality(ReferenceTimes(med_in))

\* C5: the function never fails; whatever fields are missing, empty or None,
\* a call returns a schedule.
C5_NeverFails == result # NotCalled => result.status = "ok"

\* C9: two calls with the same medication list that begin on the same start
\* date return identical schedules.
C9_Deterministic == result2 # NotCalled => result2 = result

-----------------------------------------------------------------------------
(* Claims about the session (Spec) *)

\* C1: a report pass that reaches the upsert (lines 271-279) with a selected
\* record rewrites that record where it stands: the list keeps its length,
\* every position keeps its object, the other records are untouched and the
\* selected one holds the form's data and the report; with no selected record
\* (the store was empty when the selectbox was drawn) the list grows by
\* exactly one record, added at the end.
C1_UpsertFrame ==
    [][ (pass'.mode = "pharmacist" /\ pass'.event = "report"
         /\ pass'.status = "completed") =>
          /\ pass'.selected = 0 <=> shared_patients = <<>>
          /\ IF pass'.selected # 0
             THEN /\ Len(shared_patients') = Len(shared_patients)
                  /\ \A i \in 1..Len(shared_patients) :
                        /\ shared_patients'[i].rid = shared_patients[i].rid
                        /\ i # pass'.selected =>
                              shared_patients'[i] = shared_patients[i]
                  /\ shared_patients'[pass'.selected].report = pass'.report_shown
                  /\ \A k \in DOMAIN shared_patients[pass'.selected] :
                        k \in DOMAIN shared_patients'[pass'.selected]
             ELSE /\ Len(shared_patients') = Len(shared_patients) + 1
                  /\ SubSeq(shared_patients', 1, Len(shared_patients))
                        = shared_patients
                  /\ shared_patients'[Len(shared_patients')].report
                        = pass'.report_shown ]_vars

\* C1 witness: a record created by the pharmacist form (it has no id) stands
\* first, and a report pass has just rewritten the second record.
C1_Witness ==
    /\ pass.mode = "pharmacist" /\ pass.event = "report"
    /\ pass.status = "completed" /\ pass.selected = 2
    /\ Len(shared_patients) = 2
    /\ "id" \notin DOMAIN shared_patients[1]
    /\ "id" \in DOMAIN shared_patients[2]
    /\ shared_patients[2].report # None

\* C2 as stated: every record of the store can be read on the patient side;
\* for each record there is an option of the selectbox that shows it.
C2_NoRecordHidden ==
    \A i \in 1..Len(shared_patients) :
        \E pos \in 1..Len(shared_patients) :
            FindByDisplayName(shared_patients,
                              PatientOptions(shared_patients)[pos]) = i

FirstWithItsName(patients, i) ==
    \A j \in 1..(i - 1) : DisplayName(patients[j]) # DisplayName(patients[i])

\* C2 amended: a record is read on the patient side, with its current report,
\* when no earlier record has the same display name: picking its option
\* selects it, and what a patient pass displays is the current content of the
\* record found.  On the pharmacist side every record of the store is an
\* option of the selectbox.
C2_VisibleUnlessShadowed ==
    /\ \A i \in 1..Len(shared_patients) :
          FirstWithItsName(shared_patients, i) =>
              FindByDisplayName(shared_patients,
                                PatientOptions(shared_patients)[i]) = i
    /\ (pass.mode = "patient" /\ pass.n_options > 0) =>
          /\ pass.selected \in 1..pass.n_options
          /\ FirstWithItsName(shared_patients, pass.selected)
          /\ DisplayName(shared_patients[pass.selected])
                = DisplayName(shared_patients[pass.sel_pos])
          /\ pass.report_shown
                = Get(shared_patients[pass.selected], "report", Str("(no-report)"))
    /\ pass.mode = "pharmacist" =>
          /\ pass.n_options \in {Len(shared_patients), Len(shared_patients) - 1}
          /\ pass.n_options = Len(shared_patients) - 1 =>
                (pass.event = "report" /\ pass.selected = 0)

\* C2 witness: a patient pass shows the report the pharmacist wrote into a
\* record that the patient's intake had created.
C2_Witness ==
    /\ pass.mode = "patient" /\ pass.selected # 0
    /\ "id" \in DOMAIN shared_patients[pass.selected]
    /\ pass.report_shown = Str("report")

\* C6: an error of the AI collaborator is caught where the call is made and
\* shown as a message; the pass runs to its end.
C6_CollaboratorErrorsCaught ==
    pass.ai_error => (pass.status = "completed" /\ pass.error_shown)

\* C7 as stated: an intake whose extraction is not well-formed leaves
\* shared_patients and patient_medications as they were before the action,
\* shows an error and calls the collaborator once.
C7_ParseErrorChangesNothing ==
    [][ pass'.event = "intake_parse_error" =>
          /\ shared_patients' = shared_patients
          /\ patient_medications' = patient_medications
          /\ pass'.error_shown /\ pass'.ai_calls = 1 ]_vars

\* C7 amended: such an intake creates no record and registers no medication:
\* shared_patients is as before, and patient_medications is what the sync at
\* the top of the pass made it (the normalised medications of the selected
\* patient; with an empty store, what it was); an error is shown, the
\* collaborator is called once and the pass runs to its end.
C7_ParseErrorCreatesNoRecord ==
    [][ pass'.event = "intake_parse_error" =>
          /\ shared_patients' = shared_patients
          /\ patient_medications' =
                (IF shared_patients = <<>> THEN patient_medications
                 ELSE SyncMedications(shared_patients[pass'.selected]))
          /\ pass'.error_shown /\ pass'.ai_calls = 1
          /\ pass'.status = "completed" ]_vars

\* C7 witness: a parse error on a store that holds records
C7_Witness ==
    /\ pass.event = "intake_parse_error"
    /\ Len(shared_patients) = 2
    /\ patient_medications # <<>>

MaxRid(patients) ==
    CHOOSE m \in {patients[i].rid : i \in 1..Len(patients)} :
        \A i \in 1..Len(patients) : patients[i].rid <= m

\* C8: the default selection of the pharmacist view is None on an empty
\* store and otherwise the record appended last (the one created last),
\* whatever appends and upserts came before.
C8_MostRecentIsLastAppended ==
    /\ shared_patients = <<>> => FindMostRecent(shared_patients) = NoPatient
    /\ shared_patients # <<>> =>
          /\ FindMostRecent(shared_patients).rid = MaxRid(shared_patients)
          /\ FindMostRecent(shared_patients)
                = shared_patients[Len(shared_patients)]
    /\ pass.mode = "pharmacist" => pass.default_rid = pass.n_options

\* C8 witness: two records, the first of them just rewritten by an upsert
C8_Witness ==
    /\ Len(shared_patients) = 2
    /\ pass.mode = "pharmacist" /\ pass.event = "report"
    /\ pass.status = "completed" /\ pass.selected = 1
    /\ pass.default_rid = 2

RECURSIVE CountEntries(_, _)
CountEntries(schedule, keys) ==
    IF keys = {} THEN 0
    ELSE LET k == CHOOSE x \in keys : TRUE
         IN  Len(schedule[k]) + CountEntries(schedule, keys \ {k})

\* the schedule tab on a list: every entry is at 08:00, and each medication
\* has one entry for each of its seven days
OneMorningEntryEach(list, cross) ==
    LET r == generate_schedule_from_meds(list, 0, cross)
    IN  /\ r.status = "ok"
        /\ \A k \in DOMAIN r.schedule : \A j \in 1..Len(r.schedule[k]) :
              r.schedule[k][j].time = T0800 /\ r.schedule[k][j].dosage = S(<<>>)
        /\ CountEntries(r.schedule, DOMAIN r.schedule) = DaysAhead * Len(list)

====
